---- MODULE Spec2Model ----
(***************************************************************************)
(* Model of the MLX fleet controller:                                      *)
(*   - the Dispatcher, OptimizedMLXLoadBalancer                            *)
(*     (src/mlx-servers/optimized_load_balancer.py), and                   *)
(*   - the Supervisor, EnhancedServerManager                               *)
(*     (src/mlx-servers/enhanced_server_manager.py).                       *)
(* Both are asyncio programs: a coroutine runs without interruption from   *)
(* one await to the next, so each action below is the code between two     *)
(* suspension points of one coroutine.  The two programs keep separate     *)
(* instance tables; what they share is the worker processes.               *)
(*                                                                         *)
(* Time is in milliseconds.  Fixed-point numbers: token counts are in      *)
(* tenths of a token, throughput in thousandths of a token per second,     *)
(* scores in units of 1/100000.                                            *)
(***************************************************************************)
EXTENDS Integers, Sequences, FiniteSets, TLC

\* ------------------------------------------------------------------ bounds
NumInstances == 2        \* mlx_servers.instances of the configuration
MaxReq == 2              \* client requests in one behaviour
MaxTime == 1500          \* the clock stops here
TickMs == 500            \* granularity of the clock
FailureThreshold == 2    \* load_balancer.circuit_breaker.failure_threshold
RecoveryTimeoutMs == 500 \* load_balancer.circuit_breaker.recovery_timeout
PromptWords == 10        \* words in a request's prompt / messages
UsageTokens == 100       \* usage.total_tokens of a worker's response
ManagedInstances == 1    \* mlx_servers.instances of the Supervisor's file
max_restart_attempts == 2 \* max_restart_attempts of the configuration
MaxStarts == 2           \* POST /start requests in one behaviour
MaxStops == 1            \* POST /stop requests in one behaviour
MaxThreshold == 11       \* largest configured failure_threshold
MaxFailureCount == 12    \* failure_count stops growing here
WindowMaxTime == 500     \* the clock of a long run stops here
MaxSamples == 102        \* responses of one instance in one behaviour
MaxConfiguredRetries == 3 \* largest configured load_balancer.max_retries
FleetInstances == 4      \* mlx_servers.instances of a fleet of two batches
PerfInstances == 8       \* mlx_servers.instances of a fleet with a quartile of two
TokenTickMs == 200       \* clock step of the token-count runs, in ms
ProbeInstances == 6      \* instances of a Dispatcher with more instances than permits
MaxProbeTime == 30000    \* the last probe round starts no later than this, in ms

\* ------------------------------------------------------- program constants
MaxRetries == 2          \* max_retries=2 passed to _retry_request
RetryBaseMs == 500       \* retry_delay = 0.5 * (2**attempt) seconds
LatencyWindow == 100     \* deque(maxlen=100)
ThroughputWindow == 10   \* deque(maxlen=10)
ThresholdFloor == 3      \* max(3, adaptive_threshold - 1)
ThresholdCeiling == 10   \* min(10, adaptive_threshold + 1)
TargetTps == 1485        \* throughput target of the score
ProbeSlots == 5          \* asyncio.Semaphore(5)
ProbeIntervalMs == 30000 \* await asyncio.sleep(30) between probe rounds
DefaultMaxRetries == 2   \* "max_retries": 2 of the fallback configuration
BatchSize == 3           \* batch_size = 3 of start_all_instances
LowAverage == 7000       \* avg_score < 70, in hundredths
LowScore == 5000         \* performance_score < 50, in hundredths
HealthyScore == 7000     \* performance_score > 70, in hundredths

None == -1

VARIABLES
    \* configuration and time
    num_instances,          \* config["mlx_servers"]["instances"]
    max_retries,            \* config["load_balancer"]["max_retries"]
    now,                    \* time.time(), in ms
    snapshot,               \* the last reply to GET /metrics or GET /status
    \* Dispatcher: OptimizedMLXInstance fields, one function per field
    healthy,
    active_requests,
    total_requests,
    successful_requests,
    failed_requests,
    tokens_processed,       \* in tenths of a token
    response_times,
    throughput_history,
    last_used,
    circuit_breakers,       \* EnhancedCircuitBreaker per instance id
    req,                    \* the client-request handler coroutines
    prober,                 \* the background_health_checks task
    probe,                  \* its limited_health_check coroutines
    \* Supervisor: EnhancedServerManager and its OptimizedServerInstance
    \* fields, one function per field
    is_running,
    status,
    process,                \* the Popen handle: "None", or its process's state
    orphan,                 \* a live worker whose handle was overwritten
    restart_count,
    last_heartbeat,         \* "None", or its age against restart_cooldown
    metrics,
    performance_score,
    task,                   \* the Supervisor's coroutines
    starter,                \* the POST /start handler
    stopper,                \* the POST /stop handler
    disturbed,              \* history: the coroutines whose _start_instance
                            \* began on an instance that was starting, or
                            \* has had a _stop_instance of its instance
                            \* run beside it
    refused                 \* history: the instances that _restart_instance
                            \* has marked failed for their spent budget

lbVars == <<healthy, active_requests, total_requests, successful_requests,
            failed_requests, tokens_processed, response_times,
            throughput_history, last_used,
            circuit_breakers, req, prober, probe>>

mgrVars == <<is_running, status, process, orphan, restart_count,
             last_heartbeat, metrics, performance_score, task, starter,
             stopper, disturbed, refused>>

\* the configuration file, read once at start-up
config == <<num_instances, max_retries>>

vars == <<config, snapshot, now, lbVars, mgrVars>>

Inst == 0 .. (num_instances - 1)

\* no read has been answered yet
no_snapshot == [of |-> "none"]
Requests == 1 .. MaxReq

Min(a, b) == IF a < b THEN a ELSE b
Max(a, b) == IF a > b THEN a ELSE b

RECURSIVE Sum(_)
Sum(s) == IF s = <<>> THEN 0 ELSE Head(s) + Sum(Tail(s))

RECURSIVE Pow2(_)
Pow2(k) == IF k = 0 THEN 1 ELSE 2 * Pow2(k - 1)

\* statistics.mean of a window, 0 when the window is empty
mean(s) == IF s = <<>> THEN 0 ELSE Sum(s) \div Len(s)

\* a list that grows without bound
deque_append_m(q, x, cap) == Append(q, x)

\* deque(maxlen=cap).append(x): a full deque drops its oldest element
deque_append(q, x, cap) ==
    IF Len(q) >= cap THEN Append(Tail(q), x) ELSE Append(q, x)

\* ------------------------------------------------- EnhancedCircuitBreaker
new_breaker ==
    [state |-> "closed", failure_count |-> 0, last_failure_time |-> 0,
     failure_threshold |-> FailureThreshold,
     adaptive_threshold |-> FailureThreshold]

\* a breaker that any success closes
record_success_m(b) == [b EXCEPT !.failure_count = 0, !.state = "closed"]

record_success(b) ==
    [b EXCEPT !.failure_count = 0,
              !.state = IF b.state = "half-open" THEN "closed" ELSE b.state,
              !.adaptive_threshold =
                  IF b.state = "half-open"
                  THEN Max(ThresholdFloor, b.adaptive_threshold - 1)
                  ELSE b.adaptive_threshold]

record_failure(b, t) ==
    LET fc == b.failure_count + 1
        trip == fc >= b.adaptive_threshold
    IN [b EXCEPT !.failure_count = fc,
                 !.last_failure_time = t,
                 !.state = IF trip THEN "open" ELSE b.state,
                 !.adaptive_threshold =
                     IF trip THEN Min(ThresholdCeiling, b.adaptive_threshold + 1)
                     ELSE b.adaptive_threshold]

\* a breaker that lets an attempt through when exactly recovery_timeout
\* has passed
can_attempt_m(b, t) ==
    b.state # "open" \/ t - b.last_failure_time >= RecoveryTimeoutMs

\* the value can_attempt() returns at time t
can_attempt(b, t) ==
    CASE b.state = "closed" -> TRUE
      [] b.state = "open" -> t - b.last_failure_time > RecoveryTimeoutMs
      [] b.state = "half-open" -> TRUE
      [] OTHER -> FALSE

\* the breaker after a call of can_attempt() at time t
after_can_attempt(b, t) ==
    IF b.state = "open" /\ t - b.last_failure_time > RecoveryTimeoutMs
    THEN [b EXCEPT !.state = "half-open"]
    ELSE b

\* --------------------------------------------------- OptimizedMLXInstance
average_response_time(i) == mean(response_times[i])

current_throughput(i) == mean(throughput_history[i])

\* success_rate * 100, in thousandths
success_score(i) ==
    IF total_requests[i] = 0 THEN 100000
    ELSE (successful_requests[i] * 100000) \div total_requests[i]

lb_performance_score(i) ==
    IF ~healthy[i] THEN 0
    ELSE LET throughput_score ==
                 Min(100000, (current_throughput(i) * 100) \div TargetTps)
             response_score ==
                 Max(0, 100000 - (average_response_time(i) * 1000) \div 100)
             load_score == Max(0, 100000 - active_requests[i] * 10000)
         IN throughput_score * 40 + response_score * 25
            + success_score(i) * 20 + load_score * 15

\* ------------------------------------------------------- select_instance
Algorithms == {"round_robin", "least_connections", "response_time",
               "performance", "other"}

\* a filter that forgets the breaker
healthy_instances_m == {i \in Inst : healthy[i]}

\* the list comprehension of select_instance: `and` does not call
\* can_attempt() on an instance that is not healthy
healthy_instances ==
    {i \in Inst : healthy[i] /\ can_attempt(circuit_breakers[i], now)}

\* the breakers after the comprehension has run
breakers_after_select ==
    [i \in Inst |-> IF healthy[i]
                    THEN after_can_attempt(circuit_breakers[i], now)
                    ELSE circuit_breakers[i]]

\* lexicographic order of the (a, b) key tuples
key_less(a1, b1, a2, b2) == a1 < a2 \/ (a1 = a2 /\ b1 < b2)

\* min(list, key=...) and max(list, key=...) return the first optimum of
\* the list, which is in id order; ka, kb and k give each instance's key
first_min(S, ka, kb) ==
    CHOOSE i \in S : \A j \in S \ {i} :
        \/ key_less(ka[i], kb[i], ka[j], kb[j])
        \/ (ka[i] = ka[j] /\ kb[i] = kb[j] /\ i < j)

\* a choice that takes the first instance of the list
first_max_m(S, k) == CHOOSE i \in S : \A j \in S : i <= j

first_max(S, k) ==
    CHOOSE i \in S : \A j \in S \ {i} : k[i] > k[j] \/ (k[i] = k[j] /\ i < j)

\* the keys of the lambdas of select_instance
performance_scores == [i \in Inst |-> lb_performance_score(i)]
neg_score == [i \in Inst |-> 0 - lb_performance_score(i)]
neg_throughput == [i \in Inst |-> 0 - current_throughput(i)]
response_time_key == [i \in Inst |-> average_response_time(i)]

select_instance(algorithm) ==
    IF healthy_instances = {} THEN None
    ELSE CASE algorithm = "round_robin" ->
                  first_min(healthy_instances, last_used, neg_score)
           [] algorithm = "least_connections" ->
                  first_min(healthy_instances, active_requests, neg_score)
           [] algorithm = "response_time" ->
                  first_min(healthy_instances, response_time_key,
                            neg_throughput)
           [] OTHER -> first_max(healthy_instances, performance_scores)

\* ----------------------------------------------------- request handlers
\* handle_completion_request and handle_chat_completion_request run the
\* same steps up to the reply after a successful retry, the only place
\* where the kind of a request is read; the kind is drawn there and kept
\* in the request's record
Kinds == {"completion", "chat"}
Outcomes == {"ok", "err", "exc", "typeerr"}
Usage == {None, UsageTokens}

new_request ==
    [pc |-> "new", kind |-> "", inst |-> None, retry |-> None,
     start |-> 0, wake |-> 0, status |-> 0, body |-> "", perf |-> None,
     attempts |-> 0, succ |-> 0, fail |-> 0]

\* the handler returns web.json_response(...): its locals are gone
reply(q, code, text, annotation) ==
    [q EXCEPT !.pc = "done", !.status = code, !.body = text,
              !.perf = annotation,
              !.retry = None, !.start = 0, !.wake = 0]

\* a handler that answers 500 when select_instance returns None
no_instance_reply_m(q) == reply(q, 500, "Internal server error", None)

\* the reply of both handlers when select_instance returns None
no_instance_reply(q) ==
    reply(q, 503, "No healthy MLX instances available", None)

\* len(prompt.split()) * 1.3, in tenths of a token
estimated_tokens == PromptWords * 13

InitLB ==
    /\ now = 0
    /\ snapshot = no_snapshot
    /\ healthy = [i \in Inst |-> TRUE]
    /\ active_requests = [i \in Inst |-> 0]
    /\ total_requests = [i \in Inst |-> 0]
    /\ successful_requests = [i \in Inst |-> 0]
    /\ failed_requests = [i \in Inst |-> 0]
    /\ tokens_processed = [i \in Inst |-> 0]
    /\ response_times = [i \in Inst |-> <<>>]
    /\ throughput_history = [i \in Inst |-> <<>>]
    /\ last_used = [i \in Inst |-> 0]
    /\ circuit_breakers = [i \in Inst |-> new_breaker]
    /\ req = [r \in Requests |-> new_request]
    /\ prober = [pc |-> "sleep", wake |-> 0]
    /\ probe = [i \in Inst |-> "done"]

\* handle_completion_request / handle_chat_completion_request up to the
\* first await after select_instance: the 503 reply, or the start of the
\* first attempt in _forward_to_instance.  Requests are numbered in the
\* order of their arrival.
handle_request(r) ==
    /\ req[r].pc = "new"
    /\ \A q \in Requests : q < r => req[q].pc # "new"
    /\ LET instance == select_instance("performance")
       IN /\ circuit_breakers' = breakers_after_select
          /\ IF instance = None
             THEN /\ req' = [req EXCEPT ![r] = no_instance_reply(@)]
                  /\ UNCHANGED active_requests
             ELSE /\ req' = [req EXCEPT ![r].pc = "attempt",
                                 ![r].inst = instance, ![r].start = now,
                                 ![r].attempts = 1]
                  /\ active_requests' =
                         [active_requests EXCEPT ![instance] = @ + 1]
    /\ UNCHANGED <<mgrVars, config, snapshot, tokens_processed, now,
                   healthy, total_requests,
                   successful_requests, failed_requests, response_times,
                   throughput_history, last_used, prober, probe>>

\* an outcome in which a response with a JSON body came back, so that
\* _forward_to_instance reaches its metrics section:
\*   ok       status 200
\*   err      a status other than 200
\*   typeerr  a response whose usage.total_tokens is no number, so that
\*            `tokens_processed += ...` raises after total_requests += 1
\*   exc      connect error, timeout or undecodable body: no response
has_response(o) == o \in {"ok", "err", "typeerr"}

\* the outcome leaves _forward_to_instance by `raise`
raises(o) == o \in {"exc", "typeerr"}

\* total_tokens_count, in tenths of a token
total_tokens_count(u) == IF u = None THEN estimated_tokens ELSE u * 10

\* current_throughput of one response: tokens / (response_time / 1000)
request_throughput(tokens, response_time) ==
    IF response_time > 0 THEN (tokens * 100000) \div response_time ELSE 0

\* a non-200 response that is not counted as a failure
failed_after_m(f, o) == IF o = "exc" THEN f + 1 ELSE f

\* the counters one attempt changes (lines 482-505)
failed_after(f, o) == IF o = "ok" THEN f ELSE f + 1
successful_after(s, o) == IF o = "ok" THEN s + 1 ELSE s
\* a total that counts only the responses other than 200
total_after_m(t, o) == IF o = "err" THEN t + 1 ELSE t

total_after(t, o) == IF has_response(o) THEN t + 1 ELSE t

\* a counter that adds the estimate whatever the response reports
tokens_after_m(p, o, tokens) ==
    IF o \in {"ok", "err"} THEN p + estimated_tokens ELSE p

\* instance.tokens_processed += total_tokens_count (line 485), which the
\* outcome typeerr leaves by its exception
tokens_after(p, o, tokens) == IF o \in {"ok", "err"} THEN p + tokens ELSE p

\* a slot given back in the except branch and again in `finally`
active_after_twice(a) == a - 2

\* a `finally` that does not give the slot back
active_after_m(a) == a

\* the `finally` of _forward_to_instance
active_after(a) == a - 1

\* a handler that answers a failed attempt with 503 and never retries
after_attempt_m(q, o, t, kind) ==
    IF o = "ok" THEN reply(q, 200, "", q.inst)
    ELSE reply(q, 503, "No healthy MLX instances available", None)

\* what the handler does with the attempt's result: reply to the client or
\* sleep before the next retry.  retry = None is the first attempt, made by
\* forward_request / handle_chat_completion_request; retry = k is iteration
\* k of the loop of _retry_request.
after_attempt(q, o, t, kind) ==
    IF o = "ok"
    THEN IF q.retry = None THEN reply(q, 200, "", q.inst)
         ELSE reply([q EXCEPT !.kind = kind], 200, "",
                    IF kind = "completion" THEN q.inst ELSE None)
    ELSE IF q.retry = None
    THEN IF raises(o)
         THEN reply(q, 500, "Internal server error", None)
         ELSE [q EXCEPT !.pc = "backoff", !.retry = 0,
                        !.wake = t + RetryBaseMs]
    ELSE IF q.retry + 1 < MaxRetries
    THEN [q EXCEPT !.pc = "backoff", !.retry = q.retry + 1,
                   !.wake = t + RetryBaseMs * Pow2(q.retry + 1)]
    ELSE reply(q, 500, "Internal server error", None)

\* the per-request history of counter increments (not program state)
history_after(q, o) ==
    [q EXCEPT !.succ = successful_after(q.succ, o),
              !.fail = failed_after(q.fail, o)]

\* _forward_to_instance from the return of its await to its `finally`,
\* and the caller's code up to the reply or the next await
forward_to_instance(r, o, u, kind) ==
    /\ req[r].pc = "attempt"
    /\ LET i == req[r].inst
           response_time == now - req[r].start
           tokens == total_tokens_count(u)
       IN /\ response_times' =
                 [response_times EXCEPT ![i] =
                     IF has_response(o)
                     THEN deque_append(@, response_time, LatencyWindow) ELSE @]
          /\ total_requests' =
                 [total_requests EXCEPT ![i] = total_after(@, o)]
          /\ tokens_processed' =
                 [tokens_processed EXCEPT ![i] = tokens_after(@, o, tokens)]
          /\ throughput_history' =
                 [throughput_history EXCEPT ![i] =
                     IF o \in {"ok", "err"}
                     THEN deque_append(@, request_throughput(tokens, response_time),
                                       ThroughputWindow)
                     ELSE @]
          /\ successful_requests' =
                 [successful_requests EXCEPT ![i] = successful_after(@, o)]
          /\ failed_requests' =
                 [failed_requests EXCEPT ![i] = failed_after(@, o)]
          /\ circuit_breakers' =
                 [circuit_breakers EXCEPT ![i] =
                     IF o = "ok" THEN record_success(@)
                     ELSE record_failure(@, now)]
          /\ active_requests' =
                 [active_requests EXCEPT ![i] = active_after(@)]
          /\ last_used' = [last_used EXCEPT ![i] = now]
          /\ req' = [req EXCEPT ![r] =
                        after_attempt(history_after(@, o), o, now, kind)]
    /\ UNCHANGED <<mgrVars, config, snapshot, now, healthy, prober, probe>>

\* _retry_request after `await asyncio.sleep(retry_delay)`: the next attempt
\* enters _forward_to_instance on the same instance
retry_request(r) ==
    /\ req[r].pc = "backoff"
    /\ now >= req[r].wake
    /\ req' = [req EXCEPT ![r].pc = "attempt", ![r].start = now,
                          ![r].attempts = @ + 1]
    /\ active_requests' = [active_requests EXCEPT ![req[r].inst] = @ + 1]
    /\ UNCHANGED <<mgrVars, config, snapshot, tokens_processed, now,
                   healthy, total_requests,
                   successful_requests, failed_requests, response_times,
                   throughput_history, last_used, circuit_breakers, prober,
                   probe>>

\* ---------------------------------------------------------- health prober
\* a semaphore that counts no holder
in_flight_probes_m == {}

\* the probes that hold a permit of the semaphore
in_flight_probes == {i \in Inst : probe[i] = "get"}

\* the first k elements of S in id order
RECURSIVE first_k(_, _)
first_k(S, k) ==
    IF k = 0 \/ S = {} THEN {}
    ELSE LET m == CHOOSE x \in S : \A y \in S : x <= y
         IN {m} \cup first_k(S \ {m}, k - 1)

\* background_health_checks enters perform_health_checks: gather() starts
\* one limited_health_check per instance, in id order; each takes a permit
\* and sends its GET, or waits for a permit
perform_health_checks ==
    /\ prober.pc = "sleep"
    /\ now >= prober.wake
    /\ prober' = [prober EXCEPT !.pc = "gather"]
    /\ probe' = [i \in Inst |->
                    IF i \in first_k(Inst, ProbeSlots) THEN "get" ELSE "wait"]
    /\ UNCHANGED <<mgrVars, config, snapshot, tokens_processed, now,
                   healthy, active_requests,
                   total_requests, successful_requests, failed_requests,
                   response_times, throughput_history, last_used,
                   circuit_breakers, req>>

\* a limited_health_check that waited for the semaphore gets a permit
limited_health_check(i) ==
    /\ probe[i] = "wait"
    /\ Cardinality(in_flight_probes) < ProbeSlots
    /\ probe' = [probe EXCEPT ![i] = "get"]
    /\ UNCHANGED <<mgrVars, config, snapshot, tokens_processed, now,
                   healthy, active_requests,
                   total_requests, successful_requests, failed_requests,
                   response_times, throughput_history, last_used,
                   circuit_breakers, req, prober>>

\* health_check from the return of its GET to its return (ok: status 200;
\* otherwise another status, a timeout or a connect error)
lb_health_check(i, ok) ==
    /\ probe[i] = "get"
    /\ healthy' = [healthy EXCEPT ![i] = ok]
    /\ circuit_breakers' =
           [circuit_breakers EXCEPT ![i] =
               IF ok THEN record_success(@) ELSE record_failure(@, now)]
    /\ probe' = [probe EXCEPT ![i] = "done"]
    /\ UNCHANGED <<mgrVars, config, snapshot, tokens_processed, now,
                   active_requests, total_requests,
                   successful_requests, failed_requests, response_times,
                   throughput_history, last_used, req, prober>>

\* gather() returns, perform_health_checks returns, and
\* background_health_checks sleeps
background_health_checks ==
    /\ prober.pc = "gather"
    /\ \A i \in Inst : probe[i] = "done"
    /\ prober' = [pc |-> "sleep", wake |-> now + ProbeIntervalMs]
    /\ UNCHANGED <<mgrVars, config, snapshot, tokens_processed, now,
                   healthy, active_requests,
                   total_requests, successful_requests, failed_requests,
                   response_times, throughput_history, last_used,
                   circuit_breakers, req, probe>>

\* ------------------------------------------- OptimizedServerInstance
\* the keys of instance.metrics that update_performance_score reads
new_metrics ==
    [throughput_tokens_per_sec |-> 0, average_response_time |-> 0,
     memory_usage_mb |-> 0]

\* the bodies of a worker's 200 reply to GET /health: without a
\* "performance" object, of an idle worker, of a worker at the target rate
HealthData ==
    {[has_performance |-> FALSE, performance |-> new_metrics],
     [has_performance |-> TRUE, performance |-> new_metrics],
     [has_performance |-> TRUE,
      performance |-> [new_metrics EXCEPT
                          !.throughput_tokens_per_sec = TargetTps]]}

\* instance.metrics.update(health_data["performance"])
metrics_after(m, d) == IF d.has_performance THEN d.performance ELSE m

\* update_performance_score, in hundredths of a point
update_performance_score(m, st) ==
    LET throughput_score ==
            Min(100, (m.throughput_tokens_per_sec * 100) \div TargetTps)
        response_score == Max(0, 100 - m.average_response_time \div 100)
        memory_score == Max(0, 100 - m.memory_usage_mb \div 20)
        uptime_score == IF st = "running" THEN 100 ELSE 0
    IN throughput_score * 40 + response_score * 25 + memory_score * 20
       + uptime_score * 15

\* ---------------------------------------------- EnhancedServerManager
\* the coroutines that run _start_instance and _restart_instance:
\* perform_health_checks, perform_performance_monitoring, and the
\* _start_instance(i) tasks that start_all_instances gathers
health_task == <<"health", 0>>
performance_task == <<"perf", 0>>
start_task(i) == <<"start", i>>
Tasks == {health_task, performance_task} \cup {start_task(i) : i \in Inst}

frame(pc, i, todo) == [pc |-> pc, i |-> i, todo |-> todo]

InitMgr(flag) ==
    /\ is_running = flag
    /\ status = [i \in Inst |-> "stopped"]
    /\ process = [i \in Inst |-> "None"]
    /\ orphan = [i \in Inst |-> FALSE]
    /\ restart_count = [i \in Inst |-> 0]
    /\ last_heartbeat = [i \in Inst |-> "None"]
    /\ metrics = [i \in Inst |-> new_metrics]
    /\ performance_score = [i \in Inst |-> 0]
    /\ task = [c \in Tasks |->
                 IF c[1] = "start" THEN frame("idle", c[2], <<>>)
                 ELSE frame("while", 0, <<>>)]
    /\ starter = [pc |-> "idle", batch |-> 0, calls |-> 0]
    /\ stopper = [pc |-> "idle", calls |-> 0]
    /\ refused = {}
    /\ disturbed = {}

\* the for loop of perform_health_checks from index `from` on, with the
\* statuses st: the next instance that is running is probed; when there
\* is none the round ends and the task sleeps health_check_interval
health_next(st, from) ==
    LET R == {j \in Inst : j >= from /\ st[j] = "running"}
    IN IF R = {} THEN frame("while", 0, <<>>)
       ELSE frame("probe", CHOOSE j \in R : \A k \in R : j <= k, <<>>)

\* where coroutine c goes on when _restart_instance(i) or, for a start
\* task, _start_instance(i) has returned
resume(c, st, i, todo) ==
    CASE c[1] = "health" -> health_next(st, i + 1)
      [] c[1] = "perf" -> frame("stagger", i, todo)
      [] OTHER -> frame("done", i, <<>>)

\* _check_instance_health got a 200 with body d (lines 244-253); a worker
\* answers only while it lives
check_instance_health(i, d) ==
    /\ process[i] = "alive" \/ orphan[i]
    /\ metrics' = [metrics EXCEPT ![i] = metrics_after(@, d)]
    /\ performance_score' =
           [performance_score EXCEPT ![i] =
               IF d.has_performance
               THEN update_performance_score(metrics_after(metrics[i], d),
                                             status[i])
               ELSE @]

\* a stop that clears the handle and leaves the status as it was
stopped_status_m(s, p) == s

\* _stop_instance: terminate, wait, kill and wait; no await
stopped_status(s, p) == IF p # "None" THEN "stopped" ELSE s

\* a budget test that lets one restart too many through
budget_spent_m(count) == count > max_restart_attempts

\* the budget test of _restart_instance (line 295)
budget_spent(count) == count >= max_restart_attempts

\* a restart policy without cooldown
in_cooldown_m(hb) == FALSE

\* the cooldown test of _restart_instance (lines 303-306)
in_cooldown(hb) == hb = "recent"

\* a counter that counts the requests skipped for cooldown as well
count_after_m(count, v) == IF v # "refused" THEN count + 1 ELSE count

\* instance.restart_count += 1 (line 311), reached only by a restart that
\* is carried out
count_after(count, v) == IF v = "restart" THEN count + 1 ELSE count

restart_verdict(i) ==
    IF budget_spent(restart_count[i]) THEN "refused"
    ELSE IF in_cooldown(last_heartbeat[i]) THEN "cooldown"
    ELSE "restart"

\* the coroutines that are inside _start_instance, at one of its awaits,
\* for an instance of S
starting_tasks(S) ==
    {c \in Tasks : task[c].pc \in {"poll", "cleanup"} /\ task[c].i \in S}

\* _restart_instance(i) called by coroutine c, up to its return or to
\* `await asyncio.sleep(2)`; _stop_instance does not suspend
restart_instance(c, i, todo) ==
    LET v == restart_verdict(i)
        st == [status EXCEPT ![i] =
                  CASE v = "refused" -> "failed"
                    [] v = "cooldown" -> @
                    [] OTHER -> stopped_status(@, process[i])]
    IN /\ status' = st
       /\ process' = [process EXCEPT ![i] = IF v = "restart" THEN "None" ELSE @]
       /\ restart_count' = [restart_count EXCEPT ![i] = count_after(@, v)]
       /\ task' = [task EXCEPT ![c] =
                      IF v = "restart" THEN frame("restart", i, todo)
                      ELSE resume(c, st, i, todo)]
       /\ refused' = IF v = "refused" THEN refused \cup {i} ELSE refused
       /\ disturbed' = IF v = "restart" THEN disturbed \cup starting_tasks({i})
                       ELSE disturbed

\* _start_instance up to its first await (lines 163-212); spawned is
\* whether the script exists and Popen returns
status_after_start(s, spawned) ==
    IF s = "running" THEN s ELSE IF spawned THEN "starting" ELSE "failed"

process_after_start(s, p, spawned) ==
    IF s # "running" /\ spawned THEN "alive" ELSE p

orphan_after_start(s, p, o, spawned) ==
    o \/ (s # "running" /\ spawned /\ p = "alive")

polls(s, spawned) == s # "running" /\ spawned

\* what the model records beyond the program's state
history == <<refused, disturbed>>

\* what no action of the Supervisor touches
dispatcher == <<config, snapshot, now, lbVars>>

\* `while self.is_running` of perform_health_checks, at start-up and after
\* each sleep, and the for loop up to its first probe
mgr_perform_health_checks ==
    /\ task[health_task].pc = "while"
    /\ task' = [task EXCEPT ![health_task] =
                   IF is_running THEN health_next(status, 0)
                   ELSE frame("exit", 0, <<>>)]
    /\ UNCHANGED <<dispatcher, history, is_running, status, process, orphan,
                   restart_count, last_heartbeat, metrics, performance_score,
                   starter, stopper>>

\* the probe of a running instance returns True
health_probe_ok(d) ==
    /\ task[health_task].pc = "probe"
    /\ LET i == task[health_task].i
       IN /\ check_instance_health(i, d)
          /\ last_heartbeat' = [last_heartbeat EXCEPT ![i] = "recent"]
          /\ task' = [task EXCEPT ![health_task] = health_next(status, i + 1)]
    /\ UNCHANGED <<dispatcher, history, is_running, status, process, orphan,
                   restart_count, starter, stopper>>

\* the probe returns False: `await self._restart_instance(instance)`
health_probe_failed ==
    /\ task[health_task].pc = "probe"
    /\ restart_instance(health_task, task[health_task].i, <<>>)
    /\ UNCHANGED <<dispatcher, is_running, orphan, last_heartbeat, metrics,
                   performance_score, starter, stopper>>

\* _restart_instance after its sleep: _start_instance up to its first await
start_instance(c, spawned) ==
    /\ task[c].pc = "restart"
    /\ LET i == task[c].i
           st == [status EXCEPT ![i] = status_after_start(@, spawned)]
       IN /\ status' = st
          /\ process' = [process EXCEPT ![i] =
                            process_after_start(status[i], @, spawned)]
          /\ orphan' = [orphan EXCEPT ![i] =
                           orphan_after_start(status[i], process[i], @, spawned)]
          /\ task' = [task EXCEPT ![c] =
                         IF polls(status[i], spawned)
                         THEN frame("poll", i, task[c].todo)
                         ELSE resume(c, st, i, task[c].todo)]
    /\ disturbed' = IF status[task[c].i] = "starting"
                    THEN disturbed \cup {c} ELSE disturbed \ {c}
    /\ UNCHANGED <<dispatcher, refused, is_running, restart_count, last_heartbeat,
                   metrics, performance_score, starter, stopper>>

\* a probe of the start-up loop returns True (lines 212-216)
startup_probe_ok(c, d) ==
    /\ task[c].pc = "poll"
    /\ LET i == task[c].i
           st == [status EXCEPT ![i] = "running"]
       IN /\ check_instance_health(i, d)
          /\ last_heartbeat' = [last_heartbeat EXCEPT ![i] = "recent"]
          /\ status' = st
          /\ task' = [task EXCEPT ![c] = resume(c, st, i, task[c].todo)]
    /\ UNCHANGED <<dispatcher, history, is_running, process, orphan, restart_count,
                   starter, stopper>>

\* process.terminate(): the worker exits at once or is still exiting
terminated(p, dies) == IF p = "alive" /\ dies THEN "exited" ELSE p

\* the start-up loop ends at its deadline (lines 220-229)
startup_timeout(c, dies) ==
    /\ task[c].pc = "poll"
    /\ LET i == task[c].i
           st == [status EXCEPT ![i] = "failed"]
       IN /\ status' = st
          /\ process' = [process EXCEPT ![i] = terminated(@, dies)]
          /\ task' = [task EXCEPT ![c] =
                         IF process[i] # "None"
                         THEN frame("cleanup", i, task[c].todo)
                         ELSE resume(c, st, i, task[c].todo)]
    /\ UNCHANGED <<dispatcher, history, is_running, orphan, restart_count,
                   last_heartbeat, metrics, performance_score, starter,
                   stopper>>

\* after the sleep of the clean-up (lines 230-235): kill what still runs;
\* on a handle that a stop has cleared, poll() raises and the handler of
\* _start_instance marks the instance failed
startup_cleanup(c) ==
    /\ task[c].pc = "cleanup"
    /\ LET i == task[c].i
           st == [status EXCEPT ![i] =
                     IF process[i] = "None" THEN "failed" ELSE @]
       IN /\ status' = st
          /\ process' = [process EXCEPT ![i] =
                            IF @ = "alive" THEN "exited" ELSE @]
          /\ task' = [task EXCEPT ![c] = resume(c, st, i, task[c].todo)]
    /\ UNCHANGED <<dispatcher, history, is_running, orphan, restart_count,
                   last_heartbeat, metrics, performance_score, starter,
                   stopper>>

\* ------------------------------------------------- _optimize_performance
running_instances == {i \in Inst : status[i] = "running"}

\* sorted(running_instances, key=performance_score): stable, so that
\* equal scores stay in id order
RECURSIVE sorted_instances(_)
sorted_instances(S) ==
    IF S = {} THEN <<>>
    ELSE LET m == CHOOSE i \in S : \A j \in S \ {i} :
                      key_less(performance_score[i], i,
                               performance_score[j], j)
         IN <<m>> \o sorted_instances(S \ {m})

low_performers ==
    LET sorted == sorted_instances(running_instances)
    IN SubSeq(sorted, 1, Max(1, Len(sorted) \div 4))

\* avg_score < 70
low_average ==
    LET sorted == sorted_instances(running_instances)
    IN Sum([k \in 1 .. Len(sorted) |-> performance_score[sorted[k]]])
           < LowAverage * Len(sorted)

\* the loop over low_performers from the list todo on: the first instance
\* whose score is below 50 now is handed to _restart_instance
restart_low_performers(todo) ==
    LET low == {k \in 1 .. Len(todo) : performance_score[todo[k]] < LowScore}
    IN IF low = {}
       THEN /\ task' = [task EXCEPT ![performance_task] =
                           frame("while", 0, <<>>)]
            /\ UNCHANGED <<status, process, restart_count, refused, disturbed>>
       ELSE LET k == CHOOSE x \in low : \A y \in low : x <= y
            IN restart_instance(performance_task, todo[k],
                                SubSeq(todo, k + 1, Len(todo)))

\* `while self.is_running` of perform_performance_monitoring and
\* _optimize_performance up to its first await
perform_performance_monitoring ==
    /\ task[performance_task].pc = "while"
    /\ IF ~is_running
       THEN /\ task' = [task EXCEPT ![performance_task] =
                           frame("exit", 0, <<>>)]
            /\ UNCHANGED <<status, process, restart_count, refused, disturbed>>
       ELSE IF running_instances = {} \/ ~low_average
       THEN UNCHANGED <<task, status, process, restart_count, refused,
                       disturbed>>
       ELSE restart_low_performers(low_performers)
    /\ UNCHANGED <<dispatcher, is_running, orphan, last_heartbeat, metrics,
                   performance_score, starter, stopper>>

\* _optimize_performance after `await asyncio.sleep(5)`
optimize_performance ==
    /\ task[performance_task].pc = "stagger"
    /\ restart_low_performers(task[performance_task].todo)
    /\ UNCHANGED <<dispatcher, is_running, orphan, last_heartbeat, metrics,
                   performance_score, starter, stopper>>

\* ------------------------------------------------------- POST /start
\* one batch that holds every instance from index b on
batch_m(b) == {i \in Inst : b <= i}

\* the instances of the batch that begins at index b
batch(b) == {i \in Inst : b <= i /\ i < b + BatchSize}

\* start_all_instances, from the request or from the sleep after a batch,
\* to its next await: gather() runs the _start_instance of each instance
\* of the next batch up to its first await; spawned are the instances
\* whose Popen returns.  After the last batch the handler replies.
start_all_instances(spawned) ==
    /\ starter.pc \in {"idle", "sleep"}
    /\ starter.pc = "idle" => starter.calls < MaxStarts
    /\ LET b == IF starter.pc = "idle" THEN 0 ELSE starter.batch + BatchSize
           calls == IF starter.pc = "idle" THEN starter.calls + 1
                    ELSE starter.calls
           B == batch(b)
       IN /\ spawned \subseteq B
          /\ starter' = [pc |-> IF B = {} THEN "idle" ELSE "gather",
                         batch |-> IF B = {} THEN 0 ELSE b, calls |-> calls]
          /\ status' = [i \in Inst |->
                           IF i \in B
                           THEN status_after_start(status[i], i \in spawned)
                           ELSE status[i]]
          /\ process' = [i \in Inst |->
                            IF i \in B
                            THEN process_after_start(status[i], process[i],
                                                     i \in spawned)
                            ELSE process[i]]
          /\ orphan' = [i \in Inst |->
                           IF i \in B
                           THEN orphan_after_start(status[i], process[i],
                                                   orphan[i], i \in spawned)
                           ELSE orphan[i]]
          /\ task' = [c \in Tasks |->
                         IF c[1] = "start" /\ c[2] \in B
                         THEN IF polls(status[c[2]], c[2] \in spawned)
                              THEN frame("poll", c[2], <<>>)
                              ELSE frame("done", c[2], <<>>)
                         ELSE task[c]]
          /\ disturbed' =
                 (disturbed \ {start_task(i) : i \in B})
                     \cup {start_task(i) : i \in {j \in B : status[j] = "starting"}}
    /\ UNCHANGED <<dispatcher, refused, is_running, restart_count, last_heartbeat,
                   metrics, performance_score, stopper>>

\* gather() returns when every _start_instance of the batch has returned;
\* start_all_instances then sleeps 2 s
start_batch_done ==
    /\ starter.pc = "gather"
    /\ \A i \in batch(starter.batch) : task[start_task(i)].pc = "done"
    /\ starter' = [starter EXCEPT !.pc = "sleep"]
    /\ task' = [c \in Tasks |->
                   IF c[1] = "start" /\ c[2] \in batch(starter.batch)
                   THEN frame("idle", c[2], <<>>) ELSE task[c]]
    /\ UNCHANGED <<dispatcher, history, is_running, status, process, orphan,
                   restart_count, last_heartbeat, metrics, performance_score,
                   stopper>>

\* -------------------------------------------------------- POST /stop
\* shutdown() up to `await asyncio.gather(*stop_tasks)`; background_tasks
\* is empty, so that nothing is cancelled
shutdown ==
    /\ stopper.pc = "idle"
    /\ stopper.calls < MaxStops
    /\ is_running' = FALSE
    /\ stopper' = [pc |-> "gather", calls |-> stopper.calls + 1]
    /\ UNCHANGED <<dispatcher, history, status, process, orphan, restart_count,
                   last_heartbeat, metrics, performance_score, task, starter>>

\* the _stop_instance tasks of the gather run one after the other without
\* suspending; then shutdown() returns and the handler replies
stop_instance ==
    /\ stopper.pc = "gather"
    /\ status' = [i \in Inst |-> stopped_status(status[i], process[i])]
    /\ process' = [i \in Inst |-> "None"]
    /\ stopper' = [stopper EXCEPT !.pc = "idle"]
    /\ disturbed' = disturbed \cup starting_tasks(Inst)
    /\ UNCHANGED <<dispatcher, refused, is_running, orphan, restart_count,
                   last_heartbeat, metrics, performance_score, task, starter>>

\* -------------------------------------------------------- GET /status
\* instance.pid is set with the handle (line 202) and cleared with it
\* (lines 346-347)
pid_of(p) == IF p = "None" THEN "None" ELSE "pid"

\* the values of field over the running instances, in id order
RECURSIVE of_running(_, _)
of_running(field, i) ==
    IF i >= num_instances THEN <<>>
    ELSE (IF status[i] = "running" THEN <<metrics[i][field]>> ELSE <<>>)
             \o of_running(field, i + 1)

\* get_system_status; the worker metrics are those that the model keeps,
\* and global_metrics is left out
get_system_status ==
    [status |-> IF running_instances # {} THEN "running" ELSE "stopped",
     instances |->
         [total |-> num_instances,
          running |-> Cardinality(running_instances),
          healthy |-> Cardinality({i \in running_instances :
                                      performance_score[i] > HealthyScore}),
          failed |-> Cardinality({i \in Inst : status[i] = "failed"})],
     performance |->
         [total_throughput_tokens_per_sec |->
              Sum(of_running("throughput_tokens_per_sec", 0)),
          average_response_time_ms |->
              mean(of_running("average_response_time", 0))],
     individual_instances |->
         [i \in Inst |->
             [id |-> i, status |-> status[i], pid |-> pid_of(process[i]),
              performance_score |-> performance_score[i],
              metrics |-> metrics[i],
              restart_count |-> restart_count[i]]],
     timestamp |-> now]

\* ------------------------------------------------------- GET /metrics
\* sum(f(inst) for inst in self.instances)
over_instances(f) == Sum([k \in 1 .. num_instances |-> f[k - 1]])

\* success_rate, in thousandths
success_rate(i) ==
    IF total_requests[i] = 0 THEN 1000
    ELSE (successful_requests[i] * 1000) \div total_requests[i]

\* an entry that also reports how long the instance has been idle
instance_metrics_m(i) ==
    [id |-> i, healthy |-> healthy[i], idle |-> now - last_used[i]]

\* one entry of instance_metrics (lines 713-727)
instance_metrics(i) ==
    [id |-> i, healthy |-> healthy[i],
     active_requests |-> active_requests[i],
     total_requests |-> total_requests[i],
     success_rate |-> success_rate(i),
     avg_response_time |-> average_response_time(i),
     current_throughput |-> current_throughput(i),
     tokens_processed |-> tokens_processed[i],
     performance_score |-> lb_performance_score(i)]

\* get_metrics; start_time is 0.  The fields computed from
\* global_throughput, which _monitor_performance fills, are left out.
get_metrics ==
    LET total_tokens == over_instances([i \in Inst |-> tokens_processed[i]])
    IN [system |->
            [healthy_instances |-> Cardinality({i \in Inst : healthy[i]}),
             total_instances |-> num_instances,
             uptime_seconds |-> now,
             total_tokens_processed |-> total_tokens,
             total_requests |->
                 over_instances([i \in Inst |-> total_requests[i]])],
        performance |->
            [current_throughput_tokens_per_sec |->
                 (total_tokens * 1000) \div Max(1000, now),
             target_throughput_tokens_per_sec |-> TargetTps],
        instances |-> [i \in Inst |-> instance_metrics(i)],
        timestamp |-> now]

\* metrics_handler: GET /metrics of the Dispatcher
metrics_handler ==
    /\ snapshot' = [of |-> "metrics", data |-> get_metrics]
    /\ UNCHANGED <<config, now, lbVars, mgrVars>>

\* system_status_handler: GET /status of the Supervisor
system_status_handler ==
    /\ snapshot' = [of |-> "status", data |-> get_system_status]
    /\ UNCHANGED <<config, now, lbVars, mgrVars>>

\* ------------------------------------------------- workers and time
\* a worker process exits by itself
worker_exit(i) ==
    /\ process[i] = "alive"
    /\ process' = [process EXCEPT ![i] = "exited"]
    /\ UNCHANGED <<dispatcher, history, is_running, status, orphan, restart_count,
                   last_heartbeat, metrics, performance_score, task, starter,
                   stopper>>

\* a worker whose handle the Supervisor has lost exits
orphan_exit(i) ==
    /\ orphan[i]
    /\ orphan' = [orphan EXCEPT ![i] = FALSE]
    /\ UNCHANGED <<dispatcher, history, is_running, status, process, restart_count,
                   last_heartbeat, metrics, performance_score, task, starter,
                   stopper>>

\* restart_cooldown seconds have passed since the last heartbeat
cooldown_over(i) ==
    /\ last_heartbeat[i] = "recent"
    /\ last_heartbeat' = [last_heartbeat EXCEPT ![i] = "old"]
    /\ UNCHANGED <<dispatcher, history, is_running, status, process, orphan,
                   restart_count, metrics, performance_score, task, starter,
                   stopper>>

\* the clock; a sleep that is over wakes before the clock moves on
Tick ==
    /\ now + TickMs <= MaxTime
    /\ ~(prober.pc = "sleep" /\ prober.wake <= now)
    /\ \A r \in Requests : ~(req[r].pc = "backoff" /\ req[r].wake <= now)
    /\ now' = now + TickMs
    /\ UNCHANGED <<mgrVars, config, snapshot, lbVars>>

NextLB ==
    \/ \E r \in Requests : handle_request(r)
    \/ \E r \in Requests, o \in Outcomes \ {"typeerr"}, k \in Kinds :
           forward_to_instance(r, o, UsageTokens, k)
    \/ \E r \in Requests : retry_request(r)
    \/ perform_health_checks
    \/ \E i \in Inst, ok \in BOOLEAN : lb_health_check(i, ok)
    \/ background_health_checks
    \/ Tick

\* the Dispatcher at work; its Supervisor stays as constructed
InitDispatcher ==
    /\ num_instances \in {0, NumInstances}
    /\ max_retries = DefaultMaxRetries
    /\ InitLB
    /\ InitMgr(FALSE)

SpecLB == InitDispatcher /\ [][NextLB]_vars

\* the Dispatcher with one instance, under any configured max_retries
InitRetry ==
    /\ num_instances = 1
    /\ max_retries \in 0 .. MaxConfiguredRetries
    /\ InitLB
    /\ InitMgr(FALSE)

SpecRetry == InitRetry /\ [][NextLB]_vars

NextMgr ==
    \/ mgr_perform_health_checks
    \/ \E d \in HealthData : health_probe_ok(d)
    \/ health_probe_failed
    \/ \E c \in Tasks, spawned \in BOOLEAN : start_instance(c, spawned)
    \/ \E c \in Tasks, d \in HealthData : startup_probe_ok(c, d)
    \/ \E c \in Tasks, dies \in BOOLEAN : startup_timeout(c, dies)
    \/ \E c \in Tasks : startup_cleanup(c)
    \/ perform_performance_monitoring
    \/ optimize_performance
    \/ \E spawned \in SUBSET Inst : start_all_instances(spawned)
    \/ start_batch_done
    \/ shutdown
    \/ stop_instance
    \/ \E i \in Inst : worker_exit(i)
    \/ \E i \in Inst : orphan_exit(i)
    \/ \E i \in Inst : cooldown_over(i)

\* The constructor leaves is_running False and nothing in src/ sets it:
\* as shipped, both monitoring loops end at their first test of the flag.
\* SpecMgr also covers a manager whose flag has been set, which is the only
\* way the loops, and with them _restart_instance, run at all.
InitSupervisor ==
    /\ num_instances \in {0, ManagedInstances}
    /\ max_retries = DefaultMaxRetries
    /\ InitLB
    /\ \E flag \in BOOLEAN : InitMgr(flag)

SpecMgr == InitSupervisor /\ [][NextMgr]_vars

\* ------------------------------------------ the manager as constructed
\* The manager right after create_enhanced_manager_app: is_running is
\* False, the two monitoring tasks have been created, and the fleet is
\* large enough for start_all_instances to need two batches.
InitFleet ==
    /\ num_instances = FleetInstances
    /\ max_retries = DefaultMaxRetries
    /\ InitLB
    /\ InitMgr(FALSE)

\* the workers of this fleet answer GET /health without a "performance"
\* object
PlainHealthData == {d \in HealthData : ~d.has_performance}

\* start_all_instances when it wakes from the sleep after a batch
next_batch ==
    /\ starter.pc = "sleep"
    /\ \E spawned \in SUBSET Inst : start_all_instances(spawned)

\* a probe of the start-up loop of coroutine c returns, or its deadline
\* has passed
startup_poll(c) ==
    \/ \E d \in PlainHealthData : startup_probe_ok(c, d)
    \/ \E dies \in BOOLEAN : startup_timeout(c, dies)

NextFleet ==
    \/ mgr_perform_health_checks
    \/ perform_performance_monitoring
    \/ \E spawned \in SUBSET Inst : start_all_instances(spawned)
    \/ start_batch_done
    \/ \E c \in Tasks, d \in PlainHealthData : startup_probe_ok(c, d)
    \/ \E c \in Tasks, dies \in BOOLEAN : startup_timeout(c, dies)
    \/ \E c \in Tasks : startup_cleanup(c)
    \/ shutdown
    \/ stop_instance
    \/ \E i \in Inst : worker_exit(i)

\* the event loop runs every coroutine that is ready, every probe returns
\* or times out, and every sleep ends; requests and worker exits come from
\* outside
FairFleet ==
    /\ WF_vars(mgr_perform_health_checks)
    /\ WF_vars(perform_performance_monitoring)
    /\ WF_vars(next_batch)
    /\ WF_vars(start_batch_done)
    /\ \A c \in {start_task(i) : i \in 0 .. (FleetInstances - 1)} :
           WF_vars(startup_poll(c)) /\ WF_vars(startup_cleanup(c))
    /\ WF_vars(stop_instance)

SpecFleet == InitFleet /\ [][NextFleet]_vars /\ FairFleet

\* -------------------------------------- workers that are never healthy
\* Scenario S3: every worker exits right after its spawn, so that no probe
\* of any instance succeeds; restart_cooldown is 0, which no step of this
\* scenario reads, since no heartbeat is ever set.  No POST /stop.
InitCrash ==
    /\ num_instances = FleetInstances
    /\ max_retries = DefaultMaxRetries
    /\ InitLB
    /\ \E flag \in BOOLEAN : InitMgr(flag)

\* the start-up loop of coroutine c reaches its deadline
startup_deadline(c) == \E dies \in BOOLEAN : startup_timeout(c, dies)

NextCrash ==
    \/ mgr_perform_health_checks
    \/ perform_performance_monitoring
    \/ \E spawned \in SUBSET Inst : start_all_instances(spawned)
    \/ start_batch_done
    \/ \E c \in Tasks, dies \in BOOLEAN : startup_timeout(c, dies)
    \/ \E c \in Tasks : startup_cleanup(c)
    \/ \E i \in Inst : worker_exit(i)

FairCrash ==
    /\ WF_vars(mgr_perform_health_checks)
    /\ WF_vars(perform_performance_monitoring)
    /\ WF_vars(next_batch)
    /\ WF_vars(start_batch_done)
    /\ \A c \in {start_task(i) : i \in 0 .. (FleetInstances - 1)} :
           WF_vars(startup_deadline(c)) /\ WF_vars(startup_cleanup(c))

SpecCrash == InitCrash /\ [][NextCrash]_vars /\ FairCrash

\* ------------------------------------------------ reads between requests
\* One instance behind both services: clients send completion requests
\* that succeed, the admin starts the fleet, time passes, and GET /metrics
\* and GET /status are read in between.
InitRead ==
    /\ num_instances = 1
    /\ max_retries = DefaultMaxRetries
    /\ InitLB
    /\ InitMgr(FALSE)

\* time passes and nothing else happens
read_clock ==
    /\ now + TickMs <= MaxTime
    /\ now' = now + TickMs
    /\ UNCHANGED <<config, snapshot, lbVars, mgrVars>>

NextRead ==
    \/ \E r \in Requests : handle_request(r)
    \/ \E r \in Requests :
           forward_to_instance(r, "ok", UsageTokens, "completion")
    \/ read_clock
    \/ metrics_handler
    \/ system_status_handler
    \/ \E spawned \in SUBSET Inst : start_all_instances(spawned)
    \/ start_batch_done
    \/ \E c \in Tasks, d \in HealthData : startup_probe_ok(c, d)

SpecRead == InitRead /\ [][NextRead]_vars

\* -------------------------------------------- a fleet of low performers
\* Eight instances, the smallest fleet whose lowest quartile holds two:
\* POST /start brings them up, every spawn succeeds, every worker reports
\* an idle "performance" object, so that every score is low, and POST /stop
\* may arrive while the performance task works through its list.  The
\* health task sleeps.
InitPerf ==
    /\ num_instances = PerfInstances
    /\ max_retries = DefaultMaxRetries
    /\ InitLB
    /\ \E flag \in BOOLEAN : InitMgr(flag)

\* the health reply of a worker that has served nothing yet
IdleHealthData ==
    {d \in HealthData :
        d.has_performance /\ d.performance.throughput_tokens_per_sec = 0}

NextPerf ==
    \/ \E k \in 0 .. (PerfInstances \div BatchSize + 1) :
           start_all_instances(batch(k * BatchSize))
    \/ start_batch_done
    \/ \E c \in Tasks, d \in IdleHealthData : startup_probe_ok(c, d)
    \/ perform_performance_monitoring
    \/ optimize_performance
    \/ shutdown
    \/ stop_instance

SpecPerf == InitPerf /\ [][NextPerf]_vars

\* ------------------------------------------ a long run of one instance
\* One instance that answers every request with 200, and clients that send
\* a new request whenever one has been answered: the sample windows fill.
InitWindow ==
    /\ num_instances = 1
    /\ max_retries = DefaultMaxRetries
    /\ InitLB
    /\ InitMgr(FALSE)

\* the next client request arrives; the model reuses the record of a
\* request that has been answered
next_request(r) ==
    /\ req[r].pc = "done"
    /\ \A i \in Inst : total_requests[i] < MaxSamples
    /\ req' = [req EXCEPT ![r] = new_request]
    /\ UNCHANGED <<mgrVars, config, snapshot, tokens_processed, now,
                   healthy, active_requests,
                   total_requests, successful_requests, failed_requests,
                   response_times, throughput_history, last_used,
                   circuit_breakers, prober, probe>>

\* time.time() moves on; the health prober, which touches no window, is
\* left out
window_clock ==
    /\ now + TickMs <= WindowMaxTime
    /\ now' = now + TickMs
    /\ UNCHANGED <<mgrVars, config, snapshot, lbVars>>

NextWindow ==
    \/ handle_request(1)
    \/ \E k \in Kinds : forward_to_instance(1, "ok", UsageTokens, k)
    \/ next_request(1)
    \/ window_clock

SpecWindow == InitWindow /\ [][NextWindow]_vars

\* ------------------------------------- EnhancedCircuitBreaker on its own
\* One breaker, created with any failure_threshold of the configuration and
\* called in any order, as select_instance, _forward_to_instance and
\* health_check call it.
Thresholds == 1 .. MaxThreshold

\* EnhancedCircuitBreaker(failure_threshold, recovery_timeout)
breaker_with(failure_threshold) ==
    [new_breaker EXCEPT !.failure_threshold = failure_threshold,
                        !.adaptive_threshold = failure_threshold]

InitBreaker ==
    /\ num_instances = 1
    /\ max_retries = DefaultMaxRetries
    /\ now = 0
    /\ snapshot = no_snapshot
    /\ healthy = [i \in Inst |-> TRUE]
    /\ active_requests = [i \in Inst |-> 0]
    /\ total_requests = [i \in Inst |-> 0]
    /\ successful_requests = [i \in Inst |-> 0]
    /\ failed_requests = [i \in Inst |-> 0]
    /\ tokens_processed = [i \in Inst |-> 0]
    /\ response_times = [i \in Inst |-> <<>>]
    /\ throughput_history = [i \in Inst |-> <<>>]
    /\ last_used = [i \in Inst |-> 0]
    /\ \E t \in Thresholds :
           circuit_breakers = [i \in Inst |-> breaker_with(t)]
    /\ req = [r \in Requests |-> new_request]
    /\ prober = [pc |-> "sleep", wake |-> 0]
    /\ probe = [i \in Inst |-> "done"]
    /\ InitMgr(FALSE)

\* what a call of the breaker leaves alone
besides_breaker ==
    <<mgrVars, config, snapshot, healthy, active_requests, total_requests,
      successful_requests, failed_requests, tokens_processed, response_times,
      throughput_history, last_used, req, prober, probe>>

call_record_success ==
    /\ circuit_breakers' = [circuit_breakers EXCEPT ![0] = record_success(@)]
    /\ UNCHANGED <<besides_breaker, now>>

call_record_failure ==
    /\ circuit_breakers[0].failure_count < MaxFailureCount
    /\ circuit_breakers' =
           [circuit_breakers EXCEPT ![0] = record_failure(@, now)]
    /\ UNCHANGED <<besides_breaker, now>>

call_can_attempt ==
    /\ circuit_breakers' =
           [circuit_breakers EXCEPT ![0] = after_can_attempt(@, now)]
    /\ UNCHANGED <<besides_breaker, now>>

\* time.time() moves on between two calls
breaker_clock ==
    /\ now + TickMs <= MaxTime
    /\ now' = now + TickMs
    /\ UNCHANGED <<besides_breaker, circuit_breakers>>

NextBreaker ==
    \/ call_record_success
    \/ call_record_failure
    \/ call_can_attempt
    \/ breaker_clock

SpecBreaker == InitBreaker /\ [][NextBreaker]_vars

\* ------------------------------------------------ claims: the Dispatcher
\* the attempts of request r that have come back
completed_attempts(r) ==
    IF req[r].pc = "attempt" THEN req[r].attempts - 1 ELSE req[r].attempts

\* the requests whose attempt at instance i is outstanding
outstanding(i) == {r \in Requests : req[r].pc = "attempt" /\ req[r].inst = i}

\* C1: for every algorithm, select_instance returns None or an instance
\* that is marked healthy and whose breaker's can_attempt() is true at that
\* moment, in every state that probes, forwards and breaker updates reach.
C1_SelectEligible ==
    \A a \in Algorithms :
        LET i == select_instance(a)
        IN i # None => healthy[i] /\ can_attempt(circuit_breakers[i], now)

\* C1, its case: after retries, a healthy instance is vetoed by its breaker
\* and select_instance returns another instance
C1_Witness ==
    \E i \in Inst :
        /\ healthy[i]
        /\ ~can_attempt(circuit_breakers[i], now)
        /\ \E r \in Requests : req[r].inst = i /\ req[r].attempts >= 2
        /\ select_instance("performance") \notin {None, i}

\* C2: no client request is sent to an instance whose state in the
\* Supervisor is stopped or failed.
C2_NeverStoppedOrFailed ==
    \A r \in Requests :
        req[r].pc = "attempt" => status[req[r].inst] \notin {"stopped", "failed"}

\* C3: a request that arrives when no instance is eligible is answered in
\* the same step with 503 and "No healthy MLX instances available"; it makes
\* no attempt, and no counter, in-flight value or breaker failure count
\* changes.
C3_NoInstance503 ==
    [][\A r \in Requests :
          (req[r].pc = "new" /\ req'[r].pc # "new" /\ healthy_instances = {})
          => /\ req'[r].pc = "done"
             /\ req'[r].status = 503
             /\ req'[r].body = "No healthy MLX instances available"
             /\ req'[r].attempts = 0
             /\ active_requests' = active_requests
             /\ total_requests' = total_requests
             /\ successful_requests' = successful_requests
             /\ failed_requests' = failed_requests
             /\ \A i \in Inst : circuit_breakers'[i].failure_count
                                  = circuit_breakers[i].failure_count]_vars

\* C3, its case: a request got 503 while an instance was marked healthy,
\* that is, with every healthy instance vetoed by its breaker
C3_Witness ==
    \E r \in Requests :
        /\ req[r].pc = "done"
        /\ req[r].status = 503
        /\ \E i \in Inst : healthy[i]

\* C4: for every instance successful_requests + failed_requests is at most
\* total_requests.
C4_CountersWithinTotal ==
    \A i \in Inst :
        successful_requests[i] + failed_requests[i] <= total_requests[i]

C6_OncePerRequest ==
    \A r \in Requests :
        (req[r].pc = "done" /\ req[r].inst # None)
        => req[r].succ + req[r].fail = 1

\* C6 as amended: every attempt that comes back increments exactly one of
\* the instance's two counters, by one; a request with k attempts has had
\* them incremented k times.
C6_OncePerAttempt ==
    /\ [][\A i \in Inst :
            LET s == successful_requests'[i] - successful_requests[i]
                f == failed_requests'[i] - failed_requests[i]
            IN /\ s >= 0
               /\ f >= 0
               /\ s + f = Cardinality({r \in outstanding(i) :
                                          req'[r].pc # "attempt"})]_vars
    /\ [](\A r \in Requests :
            req[r].succ + req[r].fail = completed_attempts(r))

\* C6, its case: a request answered after two failed attempts and one
\* successful retry
C6_Witness ==
    \E r \in Requests :
        req[r].pc = "done" /\ req[r].succ = 1 /\ req[r].fail = 2

\* ------------------------------------------------ claims: the Supervisor
\* a step in which a worker process is spawned for instance i
spawns(i) ==
    \/ process[i] # "alive" /\ process'[i] = "alive"
    \/ ~orphan[i] /\ orphan'[i]

\* a step in which _start_instance(i) runs from its entry to its first
\* await or its return
enters_start_instance(i) ==
    \/ \E c \in Tasks : task[c].pc = "restart" /\ task[c].i = i
                        /\ task'[c] # task[c]
    \/ starter.pc \in {"idle", "sleep"} /\ starter'.pc = "gather"
       /\ i \in batch(starter'.batch)

\* C7: restart_count is at most max_restart_attempts for every instance,
\* however the restarts of the health task and of the performance task
\* interleave.
C7_RestartBudget ==
    \A i \in Inst : restart_count[i] <= max_restart_attempts

\* C7, its case: the health task and the performance task are both in a
\* restart cycle of the same instance, whose budget is now spent
C7_Witness ==
    \E i \in Inst :
        /\ restart_count[i] = max_restart_attempts
        /\ task[health_task].pc = "restart" /\ task[health_task].i = i
        /\ task[performance_task].pc = "restart"
        /\ task[performance_task].i = i

LifecycleEdges ==
    {<<"stopped", "starting">>, <<"failed", "starting">>,
     <<"starting", "running">>, <<"starting", "failed">>,
     <<"running", "stopped">>, <<"running", "failed">>}

\* C10: the status of an instance changes only along the listed edges.  A
\* step of _start_instance that ends in a spawn error passes through
\* "starting" and counts as two edges.
C10_OnlyListedEdges ==
    [][\A i \in Inst :
          \/ status'[i] = status[i]
          \/ <<status[i], status'[i]>> \in LifecycleEdges
          \/ /\ enters_start_instance(i)
             /\ <<status[i], "starting">> \in LifecycleEdges
             /\ <<"starting", status'[i]>> \in LifecycleEdges]_vars

\* ------------------------------------------------- claims: the breaker
\* C11: while a breaker is open and at most recovery_timeout has passed
\* since its last failure, can_attempt() returns false and leaves it open;
\* a call after more than recovery_timeout moves it to half-open and
\* returns true; in closed and half-open can_attempt() returns true and
\* changes nothing.
C11_CanAttempt ==
    \A i \in Inst :
        LET b == circuit_breakers[i]
            elapsed == now - b.last_failure_time
        IN /\ (b.state = "open" /\ elapsed <= RecoveryTimeoutMs)
              => (~can_attempt(b, now) /\ after_can_attempt(b, now) = b)
           /\ (b.state = "open" /\ elapsed > RecoveryTimeoutMs)
              => /\ can_attempt(b, now)
                 /\ after_can_attempt(b, now) = [b EXCEPT !.state = "half-open"]
           /\ b.state \in {"closed", "half-open"}
              => (can_attempt(b, now) /\ after_can_attempt(b, now) = b)

\* C11, its case: a call of can_attempt() has moved a breaker to half-open
\* after it had stayed open at the moment recovery_timeout was reached
C11_Witness ==
    \E i \in Inst :
        /\ circuit_breakers[i].state = "half-open"
        /\ now - circuit_breakers[i].last_failure_time > RecoveryTimeoutMs
        /\ circuit_breakers[i].failure_count >= 1

\* C12: a breaker created with failure_threshold = 1 opens on its first
\* recorded failure; once it is half-open a further can_attempt() returns
\* false until an outcome is recorded, and the recorded outcome closes the
\* breaker or opens it again.
C12_OneProbe ==
    /\ [](\A i \in Inst :
            (circuit_breakers[i].failure_threshold = 1
             /\ circuit_breakers[i].state = "half-open")
            => ~can_attempt(circuit_breakers[i], now))
    /\ [][\A i \in Inst :
            LET b == circuit_breakers[i]
                c == circuit_breakers'[i]
            IN b.failure_threshold = 1
               => /\ (b = breaker_with(1) /\ c.failure_count = 1)
                     => c.state = "open"
                  /\ (b.state = "half-open" /\ c # b)
                     => c.state \in {"closed", "open"}]_vars

\* C13: the adaptive threshold changes in two situations only: it goes up
\* by 1, never above 10, when the breaker moves into open, and down by 1,
\* never below 3, when a success closes a half-open breaker; no other call
\* of record_success, record_failure or can_attempt changes it.
C13_ThresholdChanges ==
    [][\A i \in Inst :
          LET b == circuit_breakers[i]
              c == circuit_breakers'[i]
          IN IF b.state # "open" /\ c.state = "open"
             THEN c.adaptive_threshold =
                      IF b.adaptive_threshold < ThresholdCeiling
                      THEN b.adaptive_threshold + 1
                      ELSE b.adaptive_threshold
             ELSE IF b.state = "half-open" /\ c.state = "closed"
             THEN c.adaptive_threshold =
                      IF b.adaptive_threshold > ThresholdFloor
                      THEN b.adaptive_threshold - 1
                      ELSE b.adaptive_threshold
             ELSE c.adaptive_threshold = b.adaptive_threshold]_vars

\* -------------------------------------- claims: forwarding and replies
\* C14: while the breaker of an instance is open and at most
\* recovery_timeout has passed since its last failure, no attempt is sent
\* to the instance, neither the first attempt of a request nor a retry.
C14_NoAttemptWhileOpen ==
    [][\A r \in Requests :
          (req[r].pc # "attempt" /\ req'[r].pc = "attempt")
          => LET b == circuit_breakers[req'[r].inst]
             IN ~(b.state = "open"
                  /\ now - b.last_failure_time <= RecoveryTimeoutMs)]_vars

\* C15: a request has at most 1 + max_retries attempts, max_retries being
\* the configured load_balancer.max_retries; every attempt goes to the
\* instance selected for the request; and retry k starts only when
\* 0.5 * 2^k seconds have passed since the failed attempt before it.
C15_BoundedRetries ==
    /\ [](\A r \in Requests : req[r].attempts <= 1 + max_retries)
    /\ [][\A r \in Requests :
            LET k == req[r].attempts - 1
            IN /\ (req[r].pc = "attempt" /\ req'[r].pc = "backoff")
                  => req'[r].wake = now + RetryBaseMs * Pow2(k)
               /\ (req[r].pc = "backoff" /\ req'[r].pc = "attempt")
                  => /\ req'[r].inst = req[r].inst
                     /\ now >= req[r].wake]_vars

\* C16: an attempt that ends in an exception adds one failure, notifies
\* the breaker once, and is then treated as an attempt that returned a
\* non-200 status is: it is followed by a backoff and a retry while retries
\* are left, and by the 500 reply when none is left; for first attempts as
\* for retries.
C16_ExceptionRetried ==
    [][\A r \in Requests :
          LET i == req[r].inst
          IN (/\ req[r].pc = "attempt"
              /\ req'[r].pc # "attempt"
              /\ total_requests'[i] = total_requests[i])
             => /\ failed_requests'[i] = failed_requests[i] + 1
                /\ circuit_breakers'[i].failure_count
                       = circuit_breakers[i].failure_count + 1
                /\ IF req[r].attempts < 1 + MaxRetries
                   THEN req'[r].pc = "backoff"
                   ELSE req'[r].pc = "done" /\ req'[r].status = 500]_vars

\* C17: a reply has status 200, 503 or 500: 503 exactly when no instance
\* was eligible at the selection, 200 exactly when one of the request's
\* attempts got a 200 from the worker, and 500 with an error string as its
\* body in every other case.
C17_ReplyStatus ==
    \A r \in Requests :
        req[r].pc = "done"
        => /\ req[r].status \in {200, 503, 500}
           /\ req[r].status = 503 <=> req[r].inst = None
           /\ req[r].status = 200 <=> req[r].succ >= 1
           /\ req[r].status = 500 => req[r].body = "Internal server error"
           /\ req[r].status = 503
              => req[r].body = "No healthy MLX instances available"

\* C17, its case: one request was answered 500 after all its attempts had
\* failed and another 200 after a retry
C17_Witness ==
    \E r, q \in Requests :
        /\ req[r].pc = "done" /\ req[r].status = 500
        /\ req[r].fail = 1 + MaxRetries
        /\ req[q].pc = "done" /\ req[q].status = 200 /\ req[q].fail >= 1

\* C18: every 200 reply carries a _performance annotation whose
\* instance_id is the instance that served the request, after a first
\* attempt as after a retry.
C18_PerformanceAnnotation ==
    \A r \in Requests :
        (req[r].pc = "done" /\ req[r].status = 200)
        => (req[r].perf # None /\ req[r].perf = req[r].inst)

\* a step appends one sample to window w of capacity cap, and a full
\* window loses its oldest sample
appended(w, v, cap) ==
    IF Len(w) < cap
    THEN Len(v) = Len(w) + 1 /\ SubSeq(v, 1, Len(w)) = w
    ELSE Len(v) = cap /\ SubSeq(v, 1, cap - 1) = Tail(w)

\* C19: the latency window of an instance holds at most 100 samples and
\* its throughput window at most 10; a sample appended to a full window
\* evicts the oldest one.
C19_Windows ==
    /\ [](\A i \in Inst :
            /\ Len(response_times[i]) <= LatencyWindow
            /\ Len(throughput_history[i]) <= ThroughputWindow)
    /\ [][\A i \in Inst :
            total_requests'[i] = total_requests[i] + 1
            => /\ appended(response_times[i], response_times'[i],
                           LatencyWindow)
               /\ appended(throughput_history[i], throughput_history'[i],
                           ThroughputWindow)]_vars

\* C19, its case: both windows are full, samples have been evicted, and a
\* sample that differs from the others has moved towards the front of
\* the latency window
C19_Witness ==
    \E i \in Inst :
        /\ total_requests[i] > LatencyWindow
        /\ Len(response_times[i]) = LatencyWindow
        /\ Len(throughput_history[i]) = ThroughputWindow
        /\ \E k \in 1 .. (LatencyWindow - 1) : response_times[i][k] > 0

\* the requests sent to instance i that the client still waits for
unanswered(i) ==
    {r \in Requests : req[r].inst = i /\ req[r].pc \in {"attempt", "backoff"}}

\* C20 as stated: active_requests of an instance is at least the number of
\* requests dispatched to it and not yet answered, those between two
\* attempts included.
C20_CoversUnanswered ==
    \A i \in Inst : active_requests[i] >= Cardinality(unanswered(i))

\* C20 as amended: active_requests of an instance is at least the number
\* of requests that have an attempt outstanding at the instance; a request
\* that waits between two attempts is not counted.
C20_CoversAttempts ==
    \A i \in Inst :
        active_requests[i]
            >= Cardinality({r \in unanswered(i) : req[r].pc = "attempt"})

\* C20, its case: of two unanswered requests at one instance, one has an
\* attempt outstanding and the other waits for its retry
C20_Witness ==
    \E i \in Inst : \E r, q \in unanswered(i) :
        /\ req[r].pc = "backoff"
        /\ req[q].pc = "attempt"
        /\ active_requests[i] = 1

returns_from_start(c) ==
    /\ task[c].pc \in {"poll", "cleanup"}
    /\ task'[c].pc \notin {"poll", "cleanup"}

next_low(todo) ==
    LET low == {k \in 1 .. Len(todo) : performance_score[todo[k]] < LowScore}
    IN IF low = {} THEN None
       ELSE todo[CHOOSE x \in low : \A y \in low : x <= y]

\* a step in which _restart_instance(i) is called: by the health task on
\* a probe that failed, or by the performance task
restart_requested(i) ==
    \/ /\ task[health_task].pc = "probe" /\ task[health_task].i = i
       /\ task'[health_task] # task[health_task]
       /\ last_heartbeat' = last_heartbeat /\ metrics' = metrics
    \/ /\ task[performance_task].pc = "while"
       /\ is_running /\ running_instances # {} /\ low_average
       /\ next_low(low_performers) = i
       /\ task'[performance_task] # task[performance_task]
    \/ /\ task[performance_task].pc = "stagger"
       /\ next_low(task[performance_task].todo) = i
       /\ task'[performance_task] # task[performance_task]

\* what C24 says of a restart that is skipped: nothing of instance i
\* changes and no process is spawned
skipped(i) ==
    /\ restart_count'[i] = restart_count[i]
    /\ status'[i] = status[i]
    /\ process'[i] = process[i]
    /\ ~spawns(i)

C25_RestartCount ==
    [][/\ \A i \in Inst :
              \/ restart_count'[i] = restart_count[i]
              \/ /\ restart_count'[i] = restart_count[i] + 1
                 /\ restart_requested(i)
                 /\ restart_count[i] < max_restart_attempts
                 /\ last_heartbeat[i] # "recent"
                 /\ process'[i] = "None"
                 /\ \E c \in {health_task, performance_task} :
                        task'[c].pc = "restart" /\ task'[c].i = i
       /\ starter' # starter \/ stopper' # stopper
          => restart_count' = restart_count]_vars

\* C25, its case: an instance that has been restarted once runs again
\* after POST /stop has stopped it and a later start has brought it back,
\* and its restart_count is still 1
C25_Witness ==
    \E i \in Inst :
        /\ stopper.pc = "idle" /\ stopper.calls > 0
        /\ starter.pc = "idle" /\ starter.calls = MaxStarts
        /\ ~is_running
        /\ status[i] = "running" /\ process[i] = "alive"
        /\ restart_count[i] = 1

\* ------------------------------------------------ claims: the monitors
\* C26: as long as POST /stop has not been called, every instance that is
\* running is probed by the health task, again and again (the restart of
\* an instance whose probe fails presupposes these probes).
C26_RunningIsProbed ==
    \A i \in 0 .. (FleetInstances - 1) :
        [](status[i] = "running"
           => <>(\/ task[health_task].pc = "probe" /\ task[health_task].i = i
                 \/ status[i] # "running"
                 \/ stopper.calls > 0))

\* C27: when no worker is ever healthy, an instance that has been started
\* ends failed with restart_count = max_restart_attempts, after that many
\* restart cycles.
C27_BudgetUsedUp ==
    \A i \in 0 .. (FleetInstances - 1) :
        status[i] = "starting"
            ~> (status[i] = "failed"
                /\ restart_count[i] = max_restart_attempts)

\* ------------------------------------------------------ claims: reads
\* a snapshot without its timestamp and uptime fields
without_time(data) ==
    IF "system" \in DOMAIN data
    THEN [data EXCEPT !.timestamp = 0, !.system.uptime_seconds = 0]
    ELSE [data EXCEPT !.timestamp = 0]

\* a snapshot without the fields that are computed from the clock
without_clock(data) ==
    IF "system" \in DOMAIN data
    THEN [without_time(data) EXCEPT
              !.performance.current_throughput_tokens_per_sec = 0]
    ELSE without_time(data)

\* a step between two reads in which nothing is active: a read is
\* answered, or time passes
quiet == UNCHANGED <<config, lbVars, mgrVars>>

\* C28 as stated: answering GET /metrics or GET /status changes nothing but
\* the reply, and over steps in which nothing but reads and the clock
\* moves, both snapshots stay the same apart from timestamp and uptime.
C28_ReadsAreStable ==
    [][/\ snapshot' # snapshot => UNCHANGED <<config, now, lbVars, mgrVars>>
       /\ quiet => /\ without_time(get_metrics)' = without_time(get_metrics)
                   /\ without_time(get_system_status)'
                          = without_time(get_system_status)]_vars

\* C28 as amended: the same, apart from timestamp, uptime and the
\* throughput that get_metrics computes from the uptime.
C28_ReadsAreStableButRate ==
    [][/\ snapshot' # snapshot => UNCHANGED <<config, now, lbVars, mgrVars>>
       /\ quiet => /\ without_clock(get_metrics)' = without_clock(get_metrics)
                   /\ without_clock(get_system_status)'
                          = without_clock(get_system_status)]_vars

\* C28, its case: GET /metrics was answered after a request had been
\* served, more than a second of uptime has passed since, and a second
\* read would differ from the first in its rate but in nothing that does
\* not come from the clock
C28_Witness ==
    /\ snapshot.of = "metrics"
    /\ snapshot.data.system.total_tokens_processed > 0
    /\ snapshot.data.timestamp < now
    /\ without_clock(snapshot.data) = without_clock(get_metrics)
    /\ without_time(snapshot.data) # without_time(get_metrics)

\* ------------------------------------------------- claims: POST /start
\* C29: one call of start_all_instances has at most three instances in
\* "starting" at a time; it spawns workers only for the batch of three
\* that begins at index 0, when it is called, or that follows the last
\* batch, when it wakes from the sleep after it, and only when the
\* _start_instance of every instance of the earlier batches has returned.
C29_Batches ==
    /\ [](Cardinality({i \in Inst : status[i] = "starting"}) <= BatchSize)
    /\ [][\A i \in Inst :
             spawns(i)
             => /\ starter.pc \in {"idle", "sleep"}
                /\ starter'.pc = "gather"
                /\ starter'.batch = IF starter.pc = "idle" THEN 0
                                    ELSE starter.batch + BatchSize
                /\ starter'.batch <= i /\ i < starter'.batch + BatchSize
                /\ \A j \in Inst :
                       j < starter'.batch
                       => /\ task[start_task(j)].pc = "idle"
                          /\ status[j] # "starting"]_vars

\* C29, its case: the second batch is being started after the first has
\* finished, one of its instances running and one failed
C29_Witness ==
    /\ starter.pc = "gather" /\ starter.batch = BatchSize
    /\ status[BatchSize] = "starting"
    /\ \E i, j \in batch(0) : status[i] = "running" /\ status[j] = "failed"

\* a step in which the performance task calls _restart_instance(i)
monitor_restarts(i) ==
    \/ /\ task[performance_task].pc = "while"
       /\ is_running /\ running_instances # {} /\ low_average
       /\ next_low(low_performers) = i
       /\ task'[performance_task] # task[performance_task]
    \/ /\ task[performance_task].pc = "stagger"
       /\ next_low(task[performance_task].todo) = i
       /\ task'[performance_task] # task[performance_task]

InitProbe ==
    /\ num_instances = ProbeInstances
    /\ max_retries = DefaultMaxRetries
    /\ InitLB
    /\ InitMgr(FALSE)

\* await asyncio.sleep(30) of background_health_checks: nothing else runs
\* in this Dispatcher while the prober sleeps
probe_sleep ==
    /\ prober.pc = "sleep"
    /\ now < prober.wake
    /\ prober.wake <= MaxProbeTime
    /\ now' = prober.wake
    /\ UNCHANGED <<mgrVars, config, snapshot, lbVars>>

NextProbe ==
    \/ perform_health_checks
    \/ \E i \in Inst : limited_health_check(i)
    \/ \E i \in Inst, ok \in BOOLEAN : lb_health_check(i, ok)
    \/ background_health_checks
    \/ probe_sleep

SpecProbe == InitProbe /\ [][NextProbe]_vars

\* C31: at any moment at most 5 probes of the prober are in flight, and in
\* every round of the prober every instance is probed exactly once: a round
\* starts one probe per instance, a probe is sent only at the start of the
\* round or when it leaves the semaphore's queue, a probe that was sent
\* only finishes, and the round ends only when every probe has finished.
C31_ProbesBounded ==
    /\ [](Cardinality({i \in Inst : probe[i] = "get"}) <= ProbeSlots)
    /\ [][\A i \in Inst :
            LET round_starts == prober.pc = "sleep" /\ prober'.pc = "gather"
                round_ends == prober.pc = "gather" /\ prober'.pc = "sleep"
            IN /\ round_starts => probe[i] = "done" /\ probe'[i] \in {"get", "wait"}
               /\ round_ends => probe[i] = "done" /\ probe'[i] = "done"
               /\ ~round_starts =>
                      /\ probe[i] = "wait" => probe'[i] \in {"wait", "get"}
                      /\ probe[i] = "get" => probe'[i] \in {"get", "done"}
                      /\ probe[i] = "done" => probe'[i] = "done"]_vars

\* C31, its case: in the second round every permit is taken and a probe
\* waits for one
C31_Witness ==
    /\ now >= ProbeIntervalMs
    /\ Cardinality({i \in Inst : probe[i] = "get"}) = ProbeSlots
    /\ \E i \in Inst : probe[i] = "wait"

\* ------------------------------ _forward_to_instance, line by line
\* The statements of _forward_to_instance between the return of its await
\* and the return to its caller (lines 477-509) run without an await
\* between them, so that no other coroutine sees the states in between;
\* they are taken one at a time here to see their order.  The outcome of
\* the await is kept in the request's body field until the reply
\* overwrites it.
beside_metrics == <<mgrVars, config, snapshot, now, healthy, prober, probe>>

\* the positions inside lines 477-509
MetricsSection ==
    {"l483", "l484", "l485", "l487", "l492", "l494", "l502", "l503", "l507"}

\* lines 464-482: the await returns or raises
await_returns(r, o) ==
    /\ req[r].pc = "attempt"
    /\ req' = [req EXCEPT ![r].body = o,
                          ![r].pc = IF has_response(o) THEN "l483" ELSE "l502"]
    /\ UNCHANGED <<beside_metrics, active_requests, total_requests,
                   successful_requests, failed_requests, tokens_processed,
                   response_times, throughput_history, last_used,
                   circuit_breakers>>

\* line 483: instance.response_times.append(response_time)
line_483(r) ==
    /\ req[r].pc = "l483"
    /\ response_times' =
           [response_times EXCEPT ![req[r].inst] =
               deque_append(@, now - req[r].start, LatencyWindow)]
    /\ req' = [req EXCEPT ![r].pc = "l484"]
    /\ UNCHANGED <<beside_metrics, active_requests, total_requests,
                   successful_requests, failed_requests, tokens_processed,
                   throughput_history, last_used, circuit_breakers>>

\* line 484: instance.total_requests += 1
line_484(r) ==
    /\ req[r].pc = "l484"
    /\ total_requests' = [total_requests EXCEPT ![req[r].inst] = @ + 1]
    /\ req' = [req EXCEPT ![r].pc = "l485"]
    /\ UNCHANGED <<beside_metrics, active_requests, successful_requests,
                   failed_requests, tokens_processed, response_times,
                   throughput_history, last_used, circuit_breakers>>

\* line 485: instance.tokens_processed += total_tokens_count, which raises
\* when usage.total_tokens is no number
line_485(r) ==
    /\ req[r].pc = "l485"
    /\ tokens_processed' =
           [tokens_processed EXCEPT ![req[r].inst] =
               tokens_after(@, req[r].body, total_tokens_count(UsageTokens))]
    /\ req' = [req EXCEPT ![r].pc = IF raises(req[r].body) THEN "l502"
                                    ELSE "l487"]
    /\ UNCHANGED <<beside_metrics, active_requests, total_requests,
                   successful_requests, failed_requests, response_times,
                   throughput_history, last_used, circuit_breakers>>

\* lines 487-490: instance.throughput_history.append(current_throughput)
line_487(r) ==
    /\ req[r].pc = "l487"
    /\ throughput_history' =
           [throughput_history EXCEPT ![req[r].inst] =
               deque_append(@, request_throughput(
                                   total_tokens_count(UsageTokens),
                                   now - req[r].start),
                            ThroughputWindow)]
    /\ req' = [req EXCEPT ![r].pc = "l492"]
    /\ UNCHANGED <<beside_metrics, active_requests, total_requests,
                   successful_requests, failed_requests, tokens_processed,
                   response_times, last_used, circuit_breakers>>

\* lines 492-493 and 495-496: the counter of the status code
line_492(r) ==
    /\ req[r].pc = "l492"
    /\ successful_requests' =
           [successful_requests EXCEPT ![req[r].inst] =
               successful_after(@, req[r].body)]
    /\ failed_requests' =
           [failed_requests EXCEPT ![req[r].inst] = failed_after(@, req[r].body)]
    /\ req' = [req EXCEPT ![r].pc = "l494"]
    /\ UNCHANGED <<beside_metrics, active_requests, total_requests,
                   tokens_processed, response_times, throughput_history,
                   last_used, circuit_breakers>>

\* lines 494 and 497: the breaker is notified
line_494(r) ==
    /\ req[r].pc = "l494"
    /\ circuit_breakers' =
           [circuit_breakers EXCEPT ![req[r].inst] =
               IF req[r].body = "ok" THEN record_success(@)
               ELSE record_failure(@, now)]
    /\ req' = [req EXCEPT ![r].pc = "l507"]
    /\ UNCHANGED <<beside_metrics, active_requests, total_requests,
                   successful_requests, failed_requests, tokens_processed,
                   response_times, throughput_history, last_used>>

\* line 502: instance.failed_requests += 1 of the except branch
line_502(r) ==
    /\ req[r].pc = "l502"
    /\ failed_requests' = [failed_requests EXCEPT ![req[r].inst] = @ + 1]
    /\ req' = [req EXCEPT ![r].pc = "l503"]
    /\ UNCHANGED <<beside_metrics, active_requests, total_requests,
                   successful_requests, tokens_processed, response_times,
                   throughput_history, last_used, circuit_breakers>>

\* line 503: record_failure() of the except branch
line_503(r) ==
    /\ req[r].pc = "l503"
    /\ circuit_breakers' =
           [circuit_breakers EXCEPT ![req[r].inst] = record_failure(@, now)]
    /\ req' = [req EXCEPT ![r].pc = "l507"]
    /\ UNCHANGED <<beside_metrics, active_requests, total_requests,
                   successful_requests, failed_requests, tokens_processed,
                   response_times, throughput_history, last_used>>

\* lines 499 and 505-509: return or raise through `finally`, and the
\* caller's code up to the reply or the next await
line_507(r, kind) ==
    /\ req[r].pc = "l507"
    /\ active_requests' =
           [active_requests EXCEPT ![req[r].inst] = active_after(@)]
    /\ last_used' = [last_used EXCEPT ![req[r].inst] = now]
    /\ req' = [req EXCEPT ![r] =
                  after_attempt(history_after([@ EXCEPT !.body = ""], req[r].body),
                                req[r].body, now, kind)]
    /\ UNCHANGED <<beside_metrics, total_requests, successful_requests,
                   failed_requests, tokens_processed, response_times,
                   throughput_history, circuit_breakers>>

\* time.time() moves on while the request waits for its response or for
\* its next retry
order_clock ==
    /\ now + TickMs <= MaxTime
    /\ \A r \in Requests : req[r].pc \notin MetricsSection
    /\ now' = now + TickMs
    /\ UNCHANGED <<config, snapshot, lbVars, mgrVars>>

\* One instance and one client request, whose attempts end in every way.
InitOrder ==
    /\ num_instances = 1
    /\ max_retries = DefaultMaxRetries
    /\ InitLB
    /\ InitMgr(FALSE)

NextOrder ==
    \/ handle_request(1)
    \/ \E o \in Outcomes : await_returns(1, o)
    \/ line_483(1)
    \/ line_484(1)
    \/ line_485(1)
    \/ line_487(1)
    \/ line_492(1)
    \/ line_494(1)
    \/ line_502(1)
    \/ line_503(1)
    \/ \E k \in Kinds : line_507(1, k)
    \/ retry_request(1)
    \/ order_clock

SpecOrder == InitOrder /\ [][NextOrder]_vars

\* C32: while an attempt that received a 200 or a non-200 response makes
\* its updates, they come in the order total_requests, success or failure
\* counter, breaker, samples: the counter moves when total_requests has
\* moved, the breaker changes when the counter has moved and no sample of
\* the attempt is in a window, and a sample is appended when the counter
\* has moved (the windows of the one instance are not full).
C32_UpdateOrder ==
    [][\A r \in Requests :
          (req[r].pc \in MetricsSection /\ req[r].body \in {"ok", "err"})
          => LET i == req[r].inst
                 answered == successful_requests[i] + failed_requests[i]
                 answered_after == successful_requests'[i] + failed_requests'[i]
             IN /\ answered_after # answered
                   => /\ total_requests[i] = answered + 1
                      /\ total_requests'[i] = total_requests[i]
                /\ circuit_breakers'[i] # circuit_breakers[i]
                   => /\ answered = total_requests[i]
                      /\ Len(response_times[i]) = answered - 1
                      /\ Len(throughput_history[i]) = answered - 1
                /\ (\/ response_times'[i] # response_times[i]
                    \/ throughput_history'[i] # throughput_history[i])
                   => /\ answered = total_requests[i]
                      /\ answered > Len(response_times[i])]_vars

\* C33: in every state that a reader can see, that is, in every state
\* between two steps of the request tasks, the prober and the clock, no
\* instance has successful_requests > total_requests, and no entry of the
\* reply of GET /metrics reports a success rate above 1.
C33_SuccessesWithinTotal ==
    \A i \in Inst :
        /\ successful_requests[i] <= total_requests[i]
        /\ get_metrics.instances[i].success_rate <= 1000

\* C33, its case: every response of an instance was a 200, and another
\* attempt is outstanding at the instance
C33_Witness ==
    \E i \in Inst :
        /\ successful_requests[i] >= 1
        /\ successful_requests[i] = total_requests[i]
        /\ Cardinality(outstanding(i)) >= 1

\* --------------------------------------------- responses and their usage
\* One instance and one client request whose responses carry a usage
\* object with total_tokens, or none; the clock moves in steps of 200 ms.
InitTokens ==
    /\ num_instances = 1
    /\ max_retries = DefaultMaxRetries
    /\ InitLB
    /\ InitMgr(FALSE)

\* time.time() moves on; a sleep that is over wakes before it does
token_clock ==
    /\ now + TokenTickMs <= MaxTime
    /\ \A r \in Requests : ~(req[r].pc = "backoff" /\ req[r].wake <= now)
    /\ now' = now + TokenTickMs
    /\ UNCHANGED <<config, snapshot, lbVars, mgrVars>>

NextTokens ==
    \/ handle_request(1)
    \/ \E o \in {"ok", "err"}, u \in Usage, k \in Kinds :
           forward_to_instance(1, o, u, k)
    \/ retry_request(1)
    \/ token_clock

SpecTokens == InitTokens /\ [][NextTokens]_vars

\* C34: an attempt that receives a response with usage.total_tokens = u
\* adds u to tokens_processed, and one that receives a response without it
\* adds the estimate of the request; the throughput sample it appends is
\* the tokens added, divided by the latency in seconds (for a latency above
\* zero; tokens in tenths, samples in thousandths of a token per second).
C34_TokensAndThroughput ==
    [][\A r \in Requests, o \in {"ok", "err"}, u \in Usage, k \in Kinds :
          forward_to_instance(r, o, u, k)
          => LET i == req[r].inst
                 latency == now - req[r].start
                 tokens == IF u = None THEN PromptWords * 13 ELSE u * 10
                 samples == throughput_history'[i]
             IN /\ tokens_processed'[i] = tokens_processed[i] + tokens
                /\ Len(samples) = Len(throughput_history[i]) + 1
                /\ latency > 0
                   => samples[Len(samples)] = (tokens * 100000) \div latency]_vars

\* C34, its case: a first response without usage and a second one with
\* 100 tokens after 200 ms, whose sample is 500 tokens per second
C34_Witness ==
    \E i \in Inst :
        /\ Len(throughput_history[i]) = 2
        /\ throughput_history[i][2] = 500000
        /\ tokens_processed[i] = PromptWords * 13 + 1000
        /\ UsageTokens = 100

\* C35: whenever some instance is eligible, select_instance returns an
\* eligible instance that is an optimum of its algorithm: for performance
\* no eligible instance has a higher score, for least_connections none has
\* a smaller (in_flight, -score), for round_robin none has a smaller
\* (last_used, -score), for response_time none has a smaller
\* (avg_latency, -current_tps); and a client request that is dispatched
\* goes to an eligible instance of the highest score.
C35_SelectsOptimum ==
    /\ [](healthy_instances # {}
          => LET E == healthy_instances
                 score(i) == lb_performance_score(i)
                 no_smaller(i, a, b) ==
                     \A j \in E : \/ a[i] < a[j]
                                  \/ (a[i] = a[j] /\ b[i] >= b[j])
                 scores == [i \in Inst |-> score(i)]
                 tps == [i \in Inst |-> current_throughput(i)]
                 latency == [i \in Inst |-> average_response_time(i)]
             IN /\ \A a \in Algorithms : select_instance(a) \in E
                /\ \A j \in E : score(select_instance("performance")) >= score(j)
                /\ no_smaller(select_instance("least_connections"),
                              active_requests, scores)
                /\ no_smaller(select_instance("round_robin"), last_used, scores)
                /\ no_smaller(select_instance("response_time"), latency, tps))
    /\ [][\A r \in Requests :
            (req[r].pc = "new" /\ req'[r].pc = "attempt")
            => /\ req'[r].inst \in healthy_instances
               /\ \A j \in healthy_instances :
                      lb_performance_score(req'[r].inst)
                          >= lb_performance_score(j)]_vars

\* C35, its case: both instances are eligible, a request has been
\* dispatched, and the algorithms do not agree on the instance
C35_Witness ==
    /\ num_instances = NumInstances
    /\ healthy_instances = Inst
    /\ \E r \in Requests : req[r].pc = "attempt"
    /\ select_instance("performance") # select_instance("least_connections")
    /\ select_instance("performance") # select_instance("round_robin")

\* C36: POST /start and POST /stop are serialized: the _stop_instance calls
\* of a POST /stop run only when no POST /start is between its first batch
\* and its reply, and a POST /start begins, starts a batch or collects one
\* only when no POST /stop is between its entry and its reply.
C36_Serialized ==
    [][/\ (stopper.pc = "gather" /\ stopper'.pc = "idle")
          => starter.pc = "idle"
       /\ starter' # starter => stopper.pc = "idle"]_vars

InitStop ==
    /\ num_instances = ManagedInstances
    /\ max_retries = DefaultMaxRetries
    /\ InitLB
    /\ \E flag \in BOOLEAN : InitMgr(flag)

\* the one POST /start, which arrives before any POST /stop
first_start(spawned) ==
    /\ starter.pc = "idle" => starter.calls = 0 /\ stopper.calls = 0
    /\ start_all_instances(spawned)

\* POST /stop, after the POST /start has arrived
stop_after_start ==
    /\ starter.calls >= 1
    /\ shutdown

NextStop ==
    \/ mgr_perform_health_checks
    \/ \E d \in HealthData : health_probe_ok(d)
    \/ health_probe_failed
    \/ \E c \in Tasks, spawned \in BOOLEAN : start_instance(c, spawned)
    \/ \E c \in Tasks, d \in HealthData : startup_probe_ok(c, d)
    \/ \E c \in Tasks, dies \in BOOLEAN : startup_timeout(c, dies)
    \/ \E c \in Tasks : startup_cleanup(c)
    \/ perform_performance_monitoring
    \/ optimize_performance
    \/ \E spawned \in SUBSET Inst : first_start(spawned)
    \/ start_batch_done
    \/ stop_after_start
    \/ stop_instance
    \/ \E i \in Inst : worker_exit(i)
    \/ \E i \in Inst : orphan_exit(i)
    \/ \E i \in Inst : cooldown_over(i)

SpecStop == InitStop /\ [][NextStop]_vars

\* C38: once shutdown has completed, and with no new POST /start, no step
\* changes the lifecycle state of an instance and no step spawns a worker.
C38_QuietAfterStop ==
    [][(stopper.pc = "idle" /\ stopper.calls >= 1)
       => /\ status' = status
          /\ \A i \in Inst :
                 /\ ~(process[i] # "alive" /\ process'[i] = "alive")
                 /\ orphan'[i] => orphan[i]]_vars

\* C39: the state of a breaker changes only from closed to open and from
\* half-open to open, both in a step that records a failure, from open to
\* half-open, in a step taken after the recovery timeout that records
\* nothing, and from half-open to closed, in a step that records a success;
\* a success recorded while open leaves the breaker open.
C39_BreakerEdges ==
    [][\A i \in Inst :
          LET b == circuit_breakers[i]
              a == circuit_breakers'[i]
              failure == a.failure_count = b.failure_count + 1
              success == a.failure_count = 0 /\ ~failure
          IN /\ b.state # a.state
                => \/ /\ b.state \in {"closed", "half-open"}
                      /\ a.state = "open"
                      /\ failure
                   \/ /\ b.state = "open"
                      /\ a.state = "half-open"
                      /\ now - b.last_failure_time > RecoveryTimeoutMs
                      /\ a.failure_count = b.failure_count
                   \/ /\ b.state = "half-open"
                      /\ a.state = "closed"
                      /\ success
             /\ (b.state = "open" /\ a.failure_count < b.failure_count)
                => a.state = "open"]_vars

\* C39, its case: a success has been recorded while the breaker was open,
\* which is still open
C39_Witness ==
    \E i \in Inst :
        /\ circuit_breakers[i].state = "open"
        /\ circuit_breakers[i].failure_count = 0

\* C40: a failure recorded while a breaker is half-open opens the breaker.
C40_HalfOpenFailureOpens ==
    [][\A i \in Inst :
          (/\ circuit_breakers[i].state = "half-open"
           /\ circuit_breakers'[i].failure_count
                  = circuit_breakers[i].failure_count + 1)
          => circuit_breakers'[i].state = "open"]_vars

====
